---------------------------- MODULE Spec2Model ----------------------------
(***************************************************************************)
(* A model of cert-expiry-check (src/index.js): the CertExpiryCheck class, *)
(* its per-host configuration merge, the https request it opens per host,  *)
(* the promise each host check returns and the Promise.all that joins them.*)
(*                                                                         *)
(* JavaScript values are tagged records, so that undefined, numbers and    *)
(* strings can sit in the same property.  Objects are functions from       *)
(* property names to values; reading a property that is not there gives    *)
(* undefined.  The caller's host objects live in a heap and are passed by  *)
(* reference, as in the source.                                            *)
(*                                                                         *)
(* A point in time is a pair (d, ms): d whole days from the model's day 0  *)
(* and 0 <= ms < dayInMS milliseconds into that day.  It stands for the    *)
(* millisecond count d * dayInMS + ms; the pair keeps 60 days of           *)
(* milliseconds exact where a single machine integer would not.            *)
(***************************************************************************)
EXTENDS Integers, Sequences, FiniteSets, TLC

VARIABLES
  checkers,     \* the constructed CertExpiryCheck instances: each one's this.config
  supplied,     \* the host objects as the caller wrote them (never changes)
  heap,         \* the caller's host objects as they are now
  server,       \* hostname -> the peer certificate that host's server presents and
                \* what a request to it may meet (mode)
  now,          \* the value Date.now() returns while the calls of this run are served
  cur,          \* the checker that handles the current checkHosts call (0: none yet)
  input,        \* the hosts array passed to the current call (references)
  hosts,        \* the array buildHostConfig returned for the current call
  req,          \* per host of the current call: the https request's state
  hostPromise,  \* per host of the current call: the promise checkHost returned
  allPromise,   \* the promise checkHosts returned
  order,        \* the hosts of the current call in the order their promises settled
  uncaught,     \* hosts of the current call whose response callback threw
  calls         \* number of checkHosts calls made so far

vars == <<checkers, supplied, heap, server, now, cur, input, hosts, req, hostPromise,
          allPromise, order, uncaught, calls>>

----------------------------------------------------------------------------
(* Bounds *)

MaxHosts == 2
MaxCalls == 2

----------------------------------------------------------------------------
(* JavaScript values *)

Undefined == [type |-> "undefined"]
NaN == [type |-> "NaN"]
Num(n) == [type |-> "number", val |-> n]
Str(s) == [type |-> "string", val |-> s]

\* ToBoolean: undefined, NaN, 0 and "" are falsy
Truthy(v) ==
  CASE v.type = "number" -> v.val # 0
    [] v.type = "string" -> v.val # ""
    [] OTHER -> FALSE

\* a || b
Or(a, b) == IF Truthy(a) THEN a ELSE b

\* obj[k], undefined when obj has no property k
Get(obj, k) == IF k \in DOMAIN obj THEN obj[k] ELSE Undefined

\* obj[k] = v
Put(obj, k, v) == [x \in DOMAIN obj \cup {k} |-> IF x = k THEN v ELSE obj[x]]

\* Object.assign(target, source): every own property of source overwrites target's
ObjectAssign(target, source) ==
  [k \in DOMAIN target \cup DOMAIN source |->
     IF k \in DOMAIN source THEN source[k] ELSE target[k]]

----------------------------------------------------------------------------
(* Time *)

dayInMS == 86400000

Ts(d, ms) == [type |-> "date", d |-> d, ms |-> ms]
InvalidDate == [type |-> "invalid-date"]

\* A certificate date string "MMM D HH:mm:ss YYYY GMT": day d, s seconds into it
CertDate(d, s) == [type |-> "certdate", d |-> d, s |-> s]

\* Date.parse(dateString): milliseconds, or NaN for anything that is no date string
DateParse(v) ==
  IF v.type = "certdate" THEN [type |-> "ms", d |-> v.d, ms |-> v.s * 1000] ELSE NaN

\* new Date(ms)
NewDate(t) == IF t.type = "ms" THEN Ts(t.d, t.ms) ELSE InvalidDate

\* a - b for two dates, in milliseconds, as whole days plus 0 <= ms < dayInMS; NaN
\* when either is an invalid date
Minus(a, b) ==
  IF a.type # "date" \/ b.type # "date" THEN NaN
  ELSE IF a.ms >= b.ms
       THEN [type |-> "ms", d |-> a.d - b.d, ms |-> a.ms - b.ms]
       ELSE [type |-> "ms", d |-> a.d - b.d - 1, ms |-> a.ms - b.ms + dayInMS]

\* Math.floor in place of Math.round
MathFloor(delta) ==
  IF delta.type # "ms" THEN NaN ELSE Num(delta.d)

\* Math.round(delta / dayInMS) for a millisecond count delta: floor(x + 0.5), so a
\* half rounds up
MathRound(delta) ==
  IF delta.type # "ms" THEN NaN
  ELSE Num(delta.d + (IF 2 * delta.ms >= dayInMS THEN 1 ELSE 0))

\* a <= b on numbers; false when either side is NaN or undefined
LessEq(a, b) == a.type = "number" /\ b.type = "number" /\ a.val <= b.val

----------------------------------------------------------------------------
(* CertExpiryCheck *)

Obj(props) == [type |-> "object", props |-> props]

\* constructor(config = {})
Constructor(config) ==
  ObjectAssign([timeout |-> Num(5000),
                defaultPort |-> Num(443),
                defaultAlertWindowDays |-> Num(30),
                userAgent |-> Str("SSL Certificate Expiry Checker 0.1.0")],
               config)

\* an explicit-presence merge (host.port !== undefined ? host.port : default) in
\* place of the || merge
ResolveHost_Presence(host, _config) ==
  LET pick(a, b) == IF a.type # "undefined" THEN a ELSE b
      h1 == Put(host, "port", pick(Get(host, "port"), Get(_config, "defaultPort")))
      h2 == Put(h1, "alertWindowDays",
                pick(Get(h1, "alertWindowDays"), Get(_config, "defaultAlertWindowDays")))
      h3 == Put(h2, "headers",
                Obj([ua \in {"User-Agent"} |->
                       pick(Get(h2, "userAgent"), Get(_config, "userAgent"))]))
  IN h3

\* the callback buildHostConfig maps over the hosts: it writes the host object it is given
ResolveHost(host, _config) ==
  LET h1 == Put(host, "port", Or(Get(host, "port"), Get(_config, "defaultPort")))
      h2 == Put(h1, "alertWindowDays",
                Or(Get(h1, "alertWindowDays"), Get(_config, "defaultAlertWindowDays")))
      h3 == Put(h2, "headers",
                Obj([ua \in {"User-Agent"} |->
                       Or(Get(h2, "userAgent"), Get(_config, "userAgent"))]))
  IN h3

\* buildHostConfig(hosts): the heap after hosts.map has run its callback on
\* list[i], list[i+1], ... in turn (the returned array holds the same references)
RECURSIVE buildHostConfig(_, _, _, _)
buildHostConfig(list, i, h, _config) ==
  IF i > Len(list) THEN h
  ELSE buildHostConfig(list, i + 1,
         [h EXCEPT ![list[i]] = ResolveHost(h[list[i]], _config)], _config)

\* the synchronous part of checkHost on every host of the list: host.method = 'GET'
RECURSIVE setMethod(_, _, _)
setMethod(list, i, h) ==
  IF i > Len(list) THEN h
  ELSE setMethod(list, i + 1, [h EXCEPT ![list[i]] = Put(h[list[i]], "method", Str("GET"))])

\* getExpiry(then, host), with dateNow the value Date.now() returns
getExpiry(then, host, dateNow) ==
  LET delta == Minus(then, dateNow)
      daysToExpiry == MathRound(delta)
  IN [days |-> daysToExpiry,
      milliseconds |-> delta,
      isExpired |-> LessEq(daysToExpiry, Num(0)),
      isInAlertWindow |-> LessEq(daysToExpiry, Get(host, "alertWindowDays"))]

\* parseDate(dateString)
parseDate(dateString) == NewDate(DateParse(dateString))

\* reading raw.subject.O or raw.issuer.O throws a TypeError when raw.subject or
\* raw.issuer is undefined
hydrateThrows(raw) ==
  Get(raw, "subject").type = "undefined" \/ Get(raw, "issuer").type = "undefined"

\* hydrateResultObject(raw, host) when it does not throw; ref is the reference to host
hydrateResultObject(raw, ref, host, dateNow) ==
  [host |-> ref,
   details |->
     [subject |-> [org |-> Get(Get(raw, "subject").props, "O"),
                   commonName |-> Get(Get(raw, "subject").props, "CN"),
                   altName |-> Get(raw, "subjectaltname")],
      issuer |-> [org |-> Get(Get(raw, "issuer").props, "O"),
                  commonName |-> Get(Get(raw, "issuer").props, "CN")]],
   validFrom |-> parseDate(Get(raw, "valid_from")),
   validTo |-> parseDate(Get(raw, "valid_to")),
   expiry |-> getExpiry(parseDate(Get(raw, "valid_to")), host, dateNow)]

----------------------------------------------------------------------------
(* Promises *)

Pending == [status |-> "pending", value |-> Undefined]
Fulfilled(v) == [status |-> "fulfilled", value |-> v]
Rejected(e) == [status |-> "rejected", value |-> e]

\* the Error object the request of host i emits
Err(code, i) == [type |-> "error", code |-> code, req |-> i]

\* a join that collects the values in the order the promises settled
PromiseAll_CompletionOrder(all, hp, ord) ==
  LET i == ord[Len(ord)] IN
  IF all.status # "pending" THEN all
  ELSE IF hp[i].status = "rejected" THEN Rejected(hp[i].value)
  ELSE IF \A j \in DOMAIN hp : hp[j].status = "fulfilled"
       THEN Fulfilled([k \in DOMAIN hp |-> hp[ord[k]].value])
  ELSE all

\* a join that waits for every promise and delivers the values of those that
\* succeeded
PromiseAll_Partial(all, hp, ord) ==
  IF all.status # "pending" THEN all
  ELSE IF \A j \in DOMAIN hp : hp[j].status # "pending"
       THEN LET ok == SelectSeq(hp, LAMBDA p : p.status = "fulfilled")
            IN Fulfilled([k \in DOMAIN ok |-> ok[k].value])
  ELSE all

\* a join whose rejection is overwritten by every later rejection
PromiseAll_LastWins(all, hp, ord) ==
  LET i == ord[Len(ord)] IN
  IF hp[i].status = "rejected" THEN Rejected(hp[i].value)
  ELSE IF all.status # "pending" THEN all
  ELSE IF \A j \in DOMAIN hp : hp[j].status = "fulfilled"
       THEN Fulfilled([j \in DOMAIN hp |-> hp[j].value])
  ELSE all

\* Promise.all: what the joined promise is after the promise of host ord[Len(ord)]
\* has settled, hp being the host promises and ord their settling order
PromiseAll(all, hp, ord) ==
  LET i == ord[Len(ord)] IN
  IF all.status # "pending" THEN all
  ELSE IF hp[i].status = "rejected" THEN Rejected(hp[i].value)
  ELSE IF \A j \in DOMAIN hp : hp[j].status = "fulfilled"
       THEN Fulfilled([j \in DOMAIN hp |-> hp[j].value])
  ELSE all

----------------------------------------------------------------------------
(* The caller's inputs and the servers *)

HostNames == <<"www.google.com", "www.facebook.com", "www.example.com", "www.example.org">>

Objs == 1..MaxHosts

Absent == [type |-> "absent"]

\* the object literal {hostname, port?, alertWindowDays?, userAgent?}; Absent leaves
\* the property out
HostLiteral(o, port, window, ua) ==
  LET given == [hostname |-> Str(HostNames[o]), port |-> port,
                alertWindowDays |-> window, userAgent |-> ua]
  IN [k \in {x \in DOMAIN given : given[x] # Absent} |-> given[k]]

\* the hosts arrays a caller may pass: up to MaxHosts different host objects in any
\* order
HostLists ==
  UNION {{l \in [1..n -> Objs] : \A i, j \in 1..n : l[i] = l[j] => i = j} : n \in 0..MaxHosts}

\* the values Date.now() may return: the start of day 0 and a millisecond later
NowSet == {Ts(0, 0), Ts(0, 1)}

\* the certificate of the test stub: valid from 90 days ago to validTo
Cert(validTo) ==
  [subjectaltname |-> Str("Alt name"),
   subject |-> Obj([O |-> Str("Org name"), CN |-> Str("Common name")]),
   issuer |-> Obj([O |-> Str("Issuer org name"), CN |-> Str("Issuer common name")]),
   valid_to |-> validTo,
   valid_from |-> CertDate(-90, 0)]

ErrorCodes == {"ECONNREFUSED"}

\* a server: the certificate it presents and what a request to it may meet.
\*   "up":      a response
\*   "failing": an error, after an idle timeout or without one
\*   "any":     a response, an error and an idle timeout, in any order
Server(cert, mode) == [cert |-> cert, mode |-> mode]

\* the config objects given to the constructor
DefaultConfig == <<>>
TestConfig ==
  [timeout |-> Num(6000), defaultPort |-> Num(8080),
   defaultAlertWindowDays |-> Num(10), userAgent |-> Str("My user agent")]
ConfigArgs ==
  {DefaultConfig, TestConfig,
   [defaultPort |-> Undefined, defaultAlertWindowDays |-> Undefined],
   [defaultPort |-> Num(0), defaultAlertWindowDays |-> Num(0), userAgent |-> Str("")]}

----------------------------------------------------------------------------
(* Operations *)

\* resolve or reject of host i's promise: a settled promise stays as it is, and
\* Promise.all's reaction runs before any other event is handled
Settle(i, p) ==
  IF hostPromise[i].status = "pending"
  THEN /\ hostPromise' = [hostPromise EXCEPT ![i] = p]
       /\ order' = Append(order, i)
       /\ allPromise' = PromiseAll(allPromise, hostPromise', order')
  ELSE UNCHANGED <<hostPromise, order, allPromise>>

\* checker c's checkHosts(list): buildHostConfig, then checkHost on each host (the
\* promise executor runs at once: method, https.request, setTimeout, on('error'),
\* end), then Promise.all.  The caller awaits one call before making the next.
CheckHosts(c, list) ==
  /\ calls < MaxCalls
  /\ allPromise.status # "pending"
  /\ cur' = c
  /\ input' = list
  /\ hosts' = list
  /\ heap' = setMethod(list, 1, buildHostConfig(list, 1, heap, checkers[c]))
  /\ req' = [i \in 1..Len(list) |->
               [timeout |-> Get(checkers[c], "timeout"), responded |-> FALSE,
                errored |-> FALSE, timedOut |-> FALSE]]
  /\ hostPromise' = [i \in 1..Len(list) |-> Pending]
  /\ allPromise' = IF Len(list) = 0 THEN Fulfilled(<<>>) ELSE Pending
  /\ order' = <<>>
  /\ uncaught' = {}
  /\ calls' = calls + 1
  /\ UNCHANGED <<checkers, supplied, server, now>>

\* the response callback of host i's request:
\* resolve(_hydrate(res.connection.getPeerCertificate(), host))
Response(i) ==
  /\ i \in DOMAIN req
  /\ ~req[i].responded
  /\ server[heap[hosts[i]].hostname.val].mode \in {"up", "any"}
  /\ req' = [req EXCEPT ![i].responded = TRUE]
  /\ LET host == heap[hosts[i]]
         raw == server[host.hostname.val].cert
     IN IF hydrateThrows(raw)
        THEN /\ uncaught' = uncaught \cup {i}
             /\ UNCHANGED <<hostPromise, order, allPromise>>
        ELSE /\ Settle(i, Fulfilled(hydrateResultObject(raw, hosts[i], host, now)))
             /\ UNCHANGED uncaught
  /\ UNCHANGED <<checkers, supplied, heap, server, now, cur, input, hosts, calls>>

\* host i's request emits 'error': reject(err)
RequestError(i) ==
  /\ i \in DOMAIN req
  /\ ~req[i].errored
  /\ server[heap[hosts[i]].hostname.val].mode \in {"failing", "any"}
  /\ req' = [req EXCEPT ![i].errored = TRUE]
  /\ \E code \in ErrorCodes : Settle(i, Rejected(Err(code, i)))
  /\ UNCHANGED <<checkers, supplied, heap, server, now, cur, input, hosts, uncaught, calls>>

\* host i's socket has been idle for the time given to req.setTimeout: the request
\* emits 'timeout', which has no listener
Timeout(i) ==
  /\ i \in DOMAIN req
  /\ Truthy(req[i].timeout)
  /\ ~req[i].timedOut /\ ~req[i].responded /\ ~req[i].errored
  /\ server[heap[hosts[i]].hostname.val].mode \in {"failing", "any"}
  /\ req' = [req EXCEPT ![i].timedOut = TRUE]
  /\ UNCHANGED <<checkers, supplied, heap, server, now, cur, input, hosts, hostPromise,
                 allPromise, order, uncaught, calls>>

Next ==
  \/ \E c \in DOMAIN checkers, list \in HostLists : CheckHosts(c, list)
  \/ \E i \in 1..MaxHosts : Response(i)
  \/ \E i \in 1..MaxHosts : RequestError(i)
  \/ \E i \in 1..MaxHosts : Timeout(i)

----------------------------------------------------------------------------
(* Specifications: the same program on different inputs *)

\* no call made yet
Idle ==
  /\ heap = supplied
  /\ cur = 0
  /\ input = <<>>
  /\ hosts = <<>>
  /\ req = <<>>
  /\ hostPromise = <<>>
  /\ allPromise = [status |-> "none", value |-> Undefined]
  /\ order = <<>>
  /\ uncaught = {}
  /\ calls = 0

\* the servers of the hosts: host 1's is s1, the others present the stub's
\* certificate in mode m
Servers(s1, m) ==
  [n \in {HostNames[o] : o \in Objs} |->
     IF n = HostNames[1] THEN s1 ELSE Server(Cert(CertDate(60, 0)), m)]

\* the caller's host objects: host 1 is lit, the others are written with a
\* hostname only
Supplied(lit) ==
  [o \in Objs |-> IF o = 1 THEN lit ELSE HostLiteral(o, Absent, Absent, Absent)]

\* Concurrency: a default checker, hosts without overrides, servers that may do
\* anything in any order
Init ==
  /\ checkers = <<Constructor(DefaultConfig)>>
  /\ supplied = Supplied(HostLiteral(1, Absent, Absent, Absent))
  /\ server = Servers(Server(Cert(CertDate(60, 0)), "any"), "any")
  /\ now = Ts(0, 0)
  /\ Idle

Spec == Init /\ [][Next]_vars

\* Configuration: host 1 with and without overrides, truthy and falsy; the first
\* checker built from each kind of config object, the second from the tests' one
HostLiterals ==
  {HostLiteral(1, Absent, Absent, Absent),
   HostLiteral(1, Num(1234), Num(5), Str("Google user agent")),
   HostLiteral(1, Num(0), Num(0), Str("")),
   HostLiteral(1, Num(1234), Absent, Str("")),
   HostLiteral(1, Undefined, Num(120), Absent)}

InitResolve ==
  /\ checkers \in {<<Constructor(a), Constructor(TestConfig)>> : a \in ConfigArgs}
  /\ supplied \in {Supplied(lit) : lit \in HostLiterals}
  /\ server = Servers(Server(Cert(CertDate(60, 0)), "up"), "failing")
  /\ now = Ts(0, 0)
  /\ Idle

SpecResolve == InitResolve /\ [][Next]_vars

\* Certificates: host 1's server presents every shape of peer certificate
CertShapes ==
  LET good == Cert(CertDate(60, 0)) IN
  {good,
   [good EXCEPT !.subject = Obj([CN |-> Str("Common name")])],
   [good EXCEPT !.subject = Obj(<<>>), !.issuer = Obj([O |-> Str("Issuer org name")])],
   [k \in DOMAIN good \ {"subjectaltname"} |-> good[k]],
   [k \in DOMAIN good \ {"subject"} |-> good[k]],
   [k \in DOMAIN good \ {"issuer"} |-> good[k]],
   <<>>,
   [good EXCEPT !.valid_to = Str("not a date")],
   [good EXCEPT !.valid_from = Str("")]}

InitCert ==
  /\ checkers = <<Constructor(DefaultConfig)>>
  /\ supplied = Supplied(HostLiteral(1, Absent, Absent, Absent))
  /\ server \in {Servers(Server(c, "up"), "any") : c \in CertShapes}
  /\ now = Ts(0, 0)
  /\ Idle

SpecCert == InitCert /\ [][Next]_vars

\* Expiry: host 1's certificate ends whole and half days before and after now,
\* against the default and overridden alert windows
ValidTos == {CertDate(d, s) : d \in {-6, -1, 0, 29, 60}, s \in {0, 43200, 43201}}

InitExpiry ==
  /\ checkers = <<Constructor(DefaultConfig)>>
  /\ supplied \in {Supplied(HostLiteral(1, Absent, w, Absent)) :
                     w \in {Absent, Num(5), Num(120)}}
  /\ server \in {Servers(Server(Cert(v), "up"), "failing") : v \in ValidTos}
  /\ now \in NowSet
  /\ Idle

SpecExpiry == InitExpiry /\ [][Next]_vars

----------------------------------------------------------------------------
(* Claims *)

\* a call has been made and its hosts resolved
InCall == calls > 0

\* the first host of the settling order whose promise was rejected (0: none)
FirstRejected ==
  LET rej == SelectSeq(order, LAMBDA i : hostPromise[i].status = "rejected")
  IN IF Len(rej) = 0 THEN 0 ELSE rej[1]

\* C1: when every host check succeeds, the result at index i of the list checkHosts
\* delivers is the result of the host at index i of the input, with that host's
\* hostname, whatever the order in which the checks completed.
C1_InputOrderPreserved ==
  allPromise.status = "fulfilled" =>
    /\ Len(allPromise.value) = Len(input)
    /\ \A i \in 1..Len(input) :
         /\ allPromise.value[i] = hostPromise[i].value
         /\ allPromise.value[i].host = input[i]
         /\ heap[allPromise.value[i].host].hostname = supplied[input[i]].hostname

\* witness of C1: two different hosts, the second completed first, all succeeded
C1_Witness ==
  /\ allPromise.status = "fulfilled"
  /\ Len(input) = 2 /\ input[1] # input[2]
  /\ order = <<2, 1>>

\* C2: as soon as the check of one host has failed, the promise of checkHosts is
\* rejected: it is never fulfilled with a list, whatever the other hosts do.
C2_AnyFailureRejectsAll ==
  (\E i \in DOMAIN hostPromise : hostPromise[i].status = "rejected") =>
    allPromise.status = "rejected"

\* witness of C2: one host succeeded, then another failed
C2_Witness ==
  /\ Len(order) = 2
  /\ hostPromise[order[1]].status = "fulfilled"
  /\ hostPromise[order[2]].status = "rejected"

\* C3: a rejected checkHosts promise carries the error emitted by the request of the
\* host that failed first in time, and once the promise is settled nothing that
\* happens to the sibling checks changes it.
C3_FirstFailureWins ==
  /\ [](allPromise.status = "rejected" =>
          /\ FirstRejected # 0
          /\ allPromise.value = hostPromise[FirstRejected].value
          /\ allPromise.value.type = "error"
          /\ allPromise.value.req = FirstRejected)
  /\ [][(allPromise.status \in {"fulfilled", "rejected"} /\ calls' = calls)
          => allPromise' = allPromise]_vars

\* witness of C3: both hosts failed, the second one first, and its error is the
\* rejection
C3_Witness ==
  /\ allPromise.status = "rejected"
  /\ order = <<2, 1>>
  /\ hostPromise[1].status = "rejected" /\ hostPromise[2].status = "rejected"
  /\ allPromise.value.req = 2

\* C4: a checkHosts call resolves every host of its list in place and in order:
\* port, alertWindowDays and the User-Agent header are the host's own value when
\* that is truthy and the checker's default otherwise, the hostname is untouched.
C4_ResolutionFollowsOverrides ==
  [][calls' = calls + 1 =>
       /\ Len(hosts') = Len(input')
       /\ \A i \in 1..Len(input') :
            LET pre == heap[input'[i]]
                post == heap'[hosts'[i]]
                cfg == checkers[cur']
                want(own, default) ==
                  IF \/ own.type = "undefined"
                     \/ (own.type = "number" /\ own.val = 0)
                     \/ (own.type = "string" /\ own.val = "")
                  THEN default ELSE own
            IN /\ hosts'[i] = input'[i]
               /\ post.hostname = pre.hostname
               /\ post.port = want(Get(pre, "port"), cfg.defaultPort)
               /\ post.alertWindowDays =
                    want(Get(pre, "alertWindowDays"), cfg.defaultAlertWindowDays)
               /\ post.headers.props["User-Agent"] =
                    want(Get(pre, "userAgent"), cfg.userAgent)]_vars

\* witness of C4: a call on two hosts, one of them written with port 0 and
\* alertWindowDays 0, which now has the checker's defaults 443 and 30
C4_Witness ==
  /\ InCall
  /\ \E i \in DOMAIN hosts :
       /\ Get(supplied[hosts[i]], "port") = Num(0)
       /\ Get(supplied[hosts[i]], "alertWindowDays") = Num(0)
       /\ heap[hosts[i]].port = checkers[cur].defaultPort
       /\ heap[hosts[i]].port = Num(443)
       /\ heap[hosts[i]].alertWindowDays = Num(30)
  /\ Len(hosts) = 2

\* C5: in every result, days is (validTo - now) / 86,400,000 rounded to the nearest
\* integer, isExpired is days <= 0 and isInAlertWindow is days <= alertWindowDays;
\* validTo exactly 60 days ahead gives 60 and exactly 5 days back gives -5.
C5_ExpiryStatus ==
  \A i \in DOMAIN hostPromise :
    hostPromise[i].status = "fulfilled" =>
      LET r == hostPromise[i].value
          then == r.validTo
          window == heap[r.host].alertWindowDays
      IN (then.type = "date" /\ window.type = "number") =>
           /\ r.expiry.days.type = "number"
           /\ LET days == r.expiry.days.val
                  \* (then - now) - days * dayInMS, in milliseconds
                  off == (then.d - now.d - days) * dayInMS + (then.ms - now.ms)
              IN /\ then.d - now.d - days \in -2..2
                 /\ 2 * off <= dayInMS /\ 2 * off >= -dayInMS
                 /\ r.expiry.isExpired = (days <= 0)
                 /\ r.expiry.isInAlertWindow = (days <= window.val)
                 /\ (then.ms = now.ms /\ then.d - now.d = 60) => days = 60
                 /\ (then.ms = now.ms /\ then.d - now.d = -5) => days = -5

\* witness of C5: a certificate that ended five and a half days ago, reported as
\* -5 days, expired and in the alert window
C5_Witness ==
  \E i \in DOMAIN hostPromise :
    /\ hostPromise[i].status = "fulfilled"
    /\ hostPromise[i].value.expiry.milliseconds = [type |-> "ms", d |-> -6, ms |-> 43200000]
    /\ hostPromise[i].value.expiry.days = Num(-5)
    /\ hostPromise[i].value.expiry.isExpired
    /\ hostPromise[i].value.expiry.isInAlertWindow

\* the certificate host i's server presents
RawOf(i) == server[heap[hosts[i]].hostname.val].cert

\* valid_from or valid_to of a certificate does not parse
Unparseable(raw) ==
  DateParse(Get(raw, "valid_from")) = NaN \/ DateParse(Get(raw, "valid_to")) = NaN

\* C6: a certificate whose validity dates do not parse makes its host's check fail
\* and checkHosts reject; no result with an invalid validFrom or validTo or
\* without a number of days reaches the caller.
C6_UnparseableDatesReject ==
  \A i \in DOMAIN hostPromise :
    /\ hostPromise[i].status = "fulfilled" =>
         /\ hostPromise[i].value.validFrom.type = "date"
         /\ hostPromise[i].value.validTo.type = "date"
         /\ hostPromise[i].value.expiry.days.type = "number"
    /\ (req[i].responded /\ i \notin uncaught /\ Unparseable(RawOf(i))) =>
         hostPromise[i].status = "rejected" /\ allPromise.status = "rejected"

\* C7: once the configured timeout has elapsed on a host's connection with neither a
\* response nor an error, that host's check has failed and checkHosts is rejected.
C7_TimeoutRejects ==
  \A i \in DOMAIN req :
    req[i].timedOut =>
      hostPromise[i].status = "rejected" /\ allPromise.status = "rejected"

\* C8: every field of every resolved host is populated, whatever config object the
\* checker was constructed with.
C8_ResolvedHostPopulated ==
  InCall =>
    \A i \in DOMAIN hosts :
      LET h == heap[hosts[i]] IN
      /\ Get(h, "hostname").type # "undefined"
      /\ Get(h, "port").type # "undefined"
      /\ Get(h, "alertWindowDays").type # "undefined"
      /\ Get(h, "method") = Str("GET")
      /\ Get(h, "headers").type = "object"
      /\ Get(Get(h, "headers").props, "User-Agent").type # "undefined"

\* C9: a response whose certificate lacks an informational field, or the subject
\* or issuer that holds it, still completes the host's check: nothing is thrown,
\* the promise is fulfilled, each absent field is undefined and each present one
\* is the raw value.
C9_AbsentFieldsPassThrough ==
  /\ uncaught = {}
  /\ \A i \in DOMAIN req :
       (req[i].responded /\ ~req[i].errored) =>
         /\ hostPromise[i].status = "fulfilled"
         /\ LET raw == RawOf(i)
                sub == Get(raw, "subject")
                iss == Get(raw, "issuer")
                field(o, k) == IF o.type = "object" THEN Get(o.props, k) ELSE Undefined
                det == hostPromise[i].value.details
            IN /\ det.subject.org = field(sub, "O")
               /\ det.subject.commonName = field(sub, "CN")
               /\ det.subject.altName = Get(raw, "subjectaltname")
               /\ det.issuer.org = field(iss, "O")
               /\ det.issuer.commonName = field(iss, "CN")

\* C10: a host object written without port or alertWindowDays is resolved, in every
\* call, to the defaults of the checker that handles that call.
C10_DefaultsOfCurrentChecker ==
  InCall =>
    \A i \in DOMAIN hosts :
      LET h == hosts[i] IN
      /\ "port" \notin DOMAIN supplied[h] => heap[h].port = checkers[cur].defaultPort
      /\ "alertWindowDays" \notin DOMAIN supplied[h] =>
           heap[h].alertWindowDays = checkers[cur].defaultAlertWindowDays

=============================================================================
